---- MODULE Spec2Model ----
(***************************************************************************)
(* cvtr: a command-line numeral base converter.                            *)
(*                                                                         *)
(* The module models src/src/radix.rs (strip_prefix, detect, format,       *)
(* convert, as_text) and src/src/main.rs (Opt::get_output_radices,         *)
(* Opt::get_input_radix, run, main).                                       *)
(*                                                                         *)
(* Representation.                                                         *)
(*  - A Rust str is a sequence of chars; a char is a one-character TLA+    *)
(*    string, except the two-byte char U+00E9 which is written "U+00E9".   *)
(*    Byte lengths and byte-index slicing are computed from the UTF-8      *)
(*    width of each char, because strip_prefix slices by byte index.       *)
(*  - A u64 is a sequence of four 16-bit limbs, most significant first, so *)
(*    that the whole range 0 .. 2^64-1 and its overflow are exact.         *)
(*  - Option and Result are tagged records.                                *)
(***************************************************************************)
EXTENDS Integers, Sequences, FiniteSets, TLC

\* ------------------------------------------------------------------ bounds

\* Every string over Alphabet of at most MaxLen chars is a possible `number`.
MaxLen == 2

\* The limbs 0 .. MaxSmallLimb are among the limbs the sample values are built of.
MaxSmallLimb == 1

\* format is tried with every radix in 0 .. MaxRadixInput.
MaxRadixInput == 17

\* ------------------------------------------------------- Option and Result

None == [tag |-> "None"]
Some(x) == [tag |-> "Some", val |-> x]
Ok(x) == [tag |-> "Ok", val |-> x]
Err(e) == [tag |-> "Err", err |-> e]

\* enum RadixError
UnableToParse(s, radix) == [kind |-> "UnableToParse", s |-> s, radix |-> radix]
UnableToFormat(n, radix) == [kind |-> "UnableToFormat", n |-> n, radix |-> radix]

\* enum ArgumentError
MultipleInputRadixFlags == [kind |-> "MultipleInputRadixFlags"]

\* ------------------------------------------------------------ chars, str

\* The one non-ASCII char of the model: U+00E9, two bytes in UTF-8.
MultiByteChars == {"U+00E9"}

len_utf8(c) == IF c \in MultiByteChars THEN 2 ELSE 1

RECURSIVE str_len(_)
\* str::len: the length in bytes.
str_len(s) == IF s = <<>> THEN 0 ELSE len_utf8(Head(s)) + str_len(Tail(s))

\* str::is_char_boundary: the byte index is the start of a char or the end.
is_char_boundary(s, i) ==
    \E k \in 0..Len(s) : str_len(SubSeq(s, 1, k)) = i

\* The chars of s that start at a byte offset in lo .. hi-1.
CharsBetween(s, lo, hi) ==
    LET first == CHOOSE k \in 0..Len(s) : str_len(SubSeq(s, 1, k)) = lo
        last == CHOOSE k \in 0..Len(s) : str_len(SubSeq(s, 1, k)) = hi
    IN SubSeq(s, first + 1, last)

\* &s[lo..hi]: panics unless both ends are char boundaries.
slice(s, lo, hi) ==
    IF lo <= hi /\ is_char_boundary(s, lo) /\ is_char_boundary(s, hi)
    THEN Ok(CharsBetween(s, lo, hi))
    ELSE Err("panic")

\* ------------------------------------------------------------------- u64

LimbBase == 2 ^ 16
LimbCount == 4

U64Zero == [i \in 1..LimbCount |-> 0]
U64Max == [i \in 1..LimbCount |-> LimbBase - 1]

RECURSIVE MulLimbs(_, _, _)
\* n * m + carry over the limbs of n, least significant limb first.
MulLimbs(n, m, carry) ==
    IF n = <<>> THEN [limbs |-> <<>>, carry |-> carry]
    ELSE LET t == n[Len(n)] * m + carry
             rest == MulLimbs(SubSeq(n, 1, Len(n) - 1), m, t \div LimbBase)
         IN [limbs |-> Append(rest.limbs, t % LimbBase), carry |-> rest.carry]

\* u64::checked_mul by a radix.
checked_mul(n, m) ==
    LET r == MulLimbs(n, m, 0)
    IN IF r.carry # 0 THEN None ELSE Some(r.limbs)

\* u64::checked_add of a digit.
checked_add(n, d) ==
    LET r == MulLimbs(n, 1, d)
    IN IF r.carry # 0 THEN None ELSE Some(r.limbs)

RECURSIVE DivLimbs(_, _, _)
\* Long division of the limbs of n by m, most significant limb first.
DivLimbs(n, m, rem) ==
    IF n = <<>> THEN [q |-> <<>>, rem |-> rem]
    ELSE LET cur == rem * LimbBase + Head(n)
             rest == DivLimbs(Tail(n), m, cur % m)
         IN [q |-> <<cur \div m>> \o rest.q, rem |-> rest.rem]

\* ------------------------------------------------------------ digits

LowerDigits ==
    << "0", "1", "2", "3", "4", "5", "6", "7", "8", "9",
       "a", "b", "c", "d", "e", "f", "g", "h", "i", "j", "k", "l", "m",
       "n", "o", "p", "q", "r", "s", "t", "u", "v", "w", "x", "y", "z" >>

UpperDigits ==
    << "0", "1", "2", "3", "4", "5", "6", "7", "8", "9",
       "A", "B", "C", "D", "E", "F", "G", "H", "I", "J", "K", "L", "M",
       "N", "O", "P", "Q", "R", "S", "T", "U", "V", "W", "X", "Y", "Z" >>

\* char::to_digit: digits and letters of either case below the radix.
to_digit(c, radix) ==
    LET hit == {i \in 1..radix : LowerDigits[i] = c \/ UpperDigits[i] = c}
    IN IF hit = {} THEN None ELSE Some((CHOOSE i \in hit : TRUE) - 1)

\* ------------------------------------------------------------ radix.rs

Panic == [tag |-> "Panic"]
Returned(prefix, rest) == [tag |-> "Ok", val |-> [prefix |-> prefix, rest |-> rest]]

\* strip_prefix with >= where the source compares the length with >: a bare
\* prefix is split off.
strip_prefix_ge(s) ==
    LET n == str_len(s)
        two == slice(s, 0, 2)
        one == slice(s, 0, 1)
    IN IF n >= 2 /\ two.tag = "Err" THEN Panic
       ELSE IF n >= 2 /\ two.val = <<"0", "x">>
            THEN Returned(two.val, slice(s, 2, n).val)
       ELSE IF n >= 2 /\ two.val = <<"0", "b">>
            THEN Returned(two.val, slice(s, 2, n).val)
       ELSE IF n >= 1 /\ one.tag = "Err" THEN Panic
       ELSE IF n >= 1 /\ one.val = <<"0">>
            THEN Returned(one.val, slice(s, 1, n).val)
       ELSE Returned(<<>>, s)

\* strip_prefix with the slice bounds of the first two branches copied into
\* the third: a leading "0" takes the next char into the prefix.
strip_prefix_wide(s) ==
    LET n == str_len(s)
        two == slice(s, 0, 2)
        one == slice(s, 0, 1)
    IN IF n > 2 /\ two.tag = "Err" THEN Panic
       ELSE IF n > 2 /\ two.val = <<"0", "x">>
            THEN Returned(two.val, slice(s, 2, n).val)
       ELSE IF n > 2 /\ two.val = <<"0", "b">>
            THEN Returned(two.val, slice(s, 2, n).val)
       ELSE IF n > 1 /\ one.tag = "Err" THEN Panic
       ELSE IF n > 1 /\ one.val = <<"0">>
            THEN IF two.tag = "Err" THEN Panic
                 ELSE Returned(two.val, slice(s, 2, n).val)
       ELSE Returned(<<>>, s)

\* pub fn strip_prefix(s: &str) -> (&str, &str).  The conditions are evaluated
\* in the order of the source; a slice at a byte index that is no char
\* boundary panics.
strip_prefix(s) ==
    LET n == str_len(s)
        two == slice(s, 0, 2)
        one == slice(s, 0, 1)
    IN IF n > 2 /\ two.tag = "Err" THEN Panic
       ELSE IF n > 2 /\ two.val = <<"0", "x">>
            THEN Returned(two.val, slice(s, 2, n).val)
       ELSE IF n > 2 /\ two.val = <<"0", "b">>
            THEN Returned(two.val, slice(s, 2, n).val)
       ELSE IF n > 1 /\ one.tag = "Err" THEN Panic
       ELSE IF n > 1 /\ one.val = <<"0">>
            THEN Returned(one.val, slice(s, 1, n).val)
       ELSE Returned(<<>>, s)

\* pub fn detect(prefix: &str) -> Option<u32>
detect(prefix) ==
    CASE prefix = <<"0", "b">> -> Some(2)
      [] prefix = <<"0">> -> Some(8)
      [] prefix = <<>> -> Some(10)
      [] prefix = <<"0", "x">> -> Some(16)
      [] OTHER -> None

RECURSIVE fmt_radix(_, _)
\* format!("{:b}"), "{:o}", "{}", "{:x}": the digits of n in the base, most
\* significant first, lowercase, at least one digit.
fmt_radix(n, base) ==
    LET dm == DivLimbs(n, base, 0)
    IN IF dm.q = U64Zero THEN <<LowerDigits[dm.rem + 1]>>
       ELSE Append(fmt_radix(dm.q, base), LowerDigits[dm.rem + 1])

\* format with the hex arm copied into the octal arm.
format_octal_as_hex(n, radix) ==
    CASE radix = 2 -> Ok(fmt_radix(n, 2))
      [] radix = 8 -> Ok(fmt_radix(n, 16))
      [] radix = 10 -> Ok(fmt_radix(n, 10))
      [] radix = 16 -> Ok(fmt_radix(n, 16))
      [] OTHER -> Err(UnableToFormat(n, radix))

\* format with the radices its documentation lists (2, 5, 10, 16): octal is
\* not supported.
format_documented_radices(n, radix) ==
    CASE radix = 2 -> Ok(fmt_radix(n, 2))
      [] radix = 10 -> Ok(fmt_radix(n, 10))
      [] radix = 16 -> Ok(fmt_radix(n, 16))
      [] OTHER -> Err(UnableToFormat(n, radix))

\* pub fn format(n: u64, radix: u32) -> Result<String, RadixError>
format(n, radix) ==
    CASE radix = 2 -> Ok(fmt_radix(n, 2))
      [] radix = 8 -> Ok(fmt_radix(n, 8))
      [] radix = 10 -> Ok(fmt_radix(n, 10))
      [] radix = 16 -> Ok(fmt_radix(n, 16))
      [] OTHER -> Err(UnableToFormat(n, radix))

\* One iteration of the digit loop of u64::from_str_radix on the running
\* result: result = result * radix + digit, both checked; an error ends the
\* loop.
digit_step(result, c, radix) ==
    IF result.tag = "Err" THEN result
    ELSE LET mul == checked_mul(result.val, radix)
             x == to_digit(c, radix)
         IN IF x = None THEN Err("InvalidDigit")
            ELSE IF mul = None THEN Err("PosOverflow")
            ELSE LET sum == checked_add(mul.val, x.val)
                 IN IF sum = None THEN Err("PosOverflow") ELSE Ok(sum.val)

RECURSIVE parse_digits(_, _, _)
\* The digit loop of u64::from_str_radix, left to right over the digits (the
\* sequence is split in halves only to keep the evaluation shallow).
parse_digits(digits, radix, result) ==
    IF digits = <<>> THEN result
    ELSE IF Len(digits) = 1 THEN digit_step(result, digits[1], radix)
    ELSE LET h == Len(digits) \div 2
             left == parse_digits(SubSeq(digits, 1, h), radix, result)
         IN IF left.tag = "Err" THEN left
            ELSE parse_digits(SubSeq(digits, h + 1, Len(digits)), radix, left)

\* u64::from_str_radix(s, radix), as called by convert: an empty string is an
\* error, one leading '+' is skipped, '-' is no digit of an unsigned type.
from_str_radix(src, radix) ==
    IF src = <<>> THEN Err("Empty")
    ELSE IF Len(src) = 1 /\ Head(src) \in {"+", "-"} THEN Err("InvalidDigit")
    ELSE parse_digits(IF Head(src) = "+" THEN Tail(src) ELSE src, radix,
                      Ok(U64Zero))

\* convert with the parse error naming to_radix instead of from_radix.
convert_names_to_radix(s, from_radix, to_radix) ==
    LET n == from_str_radix(s, from_radix)
    IN IF n.tag = "Err" THEN Err(UnableToParse(s, to_radix))
       ELSE format(n.val, to_radix)

\* pub fn convert(s: &str, from_radix: u32, to_radix: u32)
convert(s, from_radix, to_radix) ==
    LET n == from_str_radix(s, from_radix)
    IN IF n.tag = "Err" THEN Err(UnableToParse(s, from_radix))
       ELSE format(n.val, to_radix)

\* pub fn as_text(radix: u32) -> String
as_text(radix) ==
    CASE radix = 2 -> [text |-> "binary"]
      [] radix = 8 -> [text |-> "octal"]
      [] radix = 10 -> [text |-> "decimal"]
      [] radix = 16 -> [text |-> "hex"]
      [] OTHER -> [text |-> "radix-", n |-> radix]

\* -------------------------------------------------------------- main.rs

\* The closure cond_push of get_output_radices.
cond_push(v, flag, radix) == IF flag THEN Append(v, radix) ELSE v

\* get_output_radices with the flags pushed in the order of the fields of Opt
\* (hex, dec, oct, bin) instead of ascending radix.
get_output_radices_field_order(o) ==
    IF ~o.display_bin /\ ~o.display_oct /\ ~o.display_dec /\ ~o.display_hex
    THEN <<2, 8, 10, 16>>
    ELSE cond_push(cond_push(cond_push(cond_push(<<>>,
             o.display_hex, 16), o.display_dec, 10), o.display_oct, 8),
             o.display_bin, 2)

\* fn get_output_radices(&self) -> Vec<u32>
get_output_radices(o) ==
    IF ~o.display_bin /\ ~o.display_oct /\ ~o.display_dec /\ ~o.display_hex
    THEN <<2, 8, 10, 16>>
    ELSE cond_push(cond_push(cond_push(cond_push(<<>>,
             o.display_bin, 2), o.display_oct, 8), o.display_dec, 10),
             o.display_hex, 16)

\* fn get_input_radix(&self) -> Result<Option<u32>, ArgumentError>.  The
\* closure check reads the local input_radix, which is assigned only after
\* the whole if-chain has been evaluated: each call of check sees the value
\* the local was initialised with.
get_input_radix(o) ==
    LET input_radix0 == None
        check(flag) == IF input_radix0 # None
                       THEN Err(MultipleInputRadixFlags)
                       ELSE Ok(flag)
        c_bin == check(o.from_bin)
        c_oct == check(o.from_oct)
        c_dec == check(o.from_dec)
        c_hex == check(o.from_hex)
    IN IF c_bin.tag = "Err" THEN c_bin
       ELSE IF c_bin.val THEN Ok(Some(2))
       ELSE IF c_oct.tag = "Err" THEN c_oct
       ELSE IF c_oct.val THEN Ok(Some(8))
       ELSE IF c_dec.tag = "Err" THEN c_dec
       ELSE IF c_dec.val THEN Ok(Some(10))
       ELSE IF c_hex.tag = "Err" THEN c_hex
       ELSE IF c_hex.val THEN Ok(Some(16))
       ELSE Ok(None)

\* The input radix with the prefix of the number taking precedence over a
\* from-flag.
detect_or_flag(ir, p) == IF p # <<>> \/ ir = None THEN detect(p) ELSE ir

\* input_radix.unwrap_or_else(|| radix::detect(prefix).unwrap()) of run:
\* None when the inner unwrap panics.
unwrap_or_detect(ir, p) == IF ir # None THEN ir ELSE detect(p)

\* The lines a run writes.
ErrorLine(e) == [kind |-> "error", err |-> e]
ConversionLine(out_radix, converted) ==
    [kind |-> "conversion", label |-> as_text(out_radix), text |-> converted]
PanicLine(where) == [kind |-> "panic", at |-> where]

\* ------------------------------------------------------------- inputs

\* The chars the enumerated numbers are made of: the prefix chars, a binary
\* digit, a sign, and a two-byte char.
Alphabet == {"0", "1", "b", "x", "+", "U+00E9"}

RECURSIVE StringsUpTo(_)
StringsUpTo(n) ==
    IF n = 0 THEN {<<>>}
    ELSE LET shorter == StringsUpTo(n - 1)
         IN shorter \cup {Append(s, c) : s \in shorter, c \in Alphabet}

Repeat(c, n) == [i \in 1..n |-> c]

\* Numbers beyond the enumerated ones: the examples of the documentation and
\* the tests, digits that are invalid in some radix, and the numerals at and
\* just above the largest u64 in each radix.
SampleNumbers ==
    { <<"g">>, <<"a">>, <<"4", "2">>, <<"1", "9">>, <<"0", "8">>, <<"-", "1">>,
      <<"0", "x", "2", "a">>, <<"0", "x", "a", "f", "9">>, <<"0", "x", "F", "F">>,
      <<"0", "b", "1", "1", "0", "1">>, <<"0", "b", "1", "2">>,
      <<"0", "7", "4">>, <<"1", "0", "4", "5">>, <<"1", "0", "1", "0">>,
      <<"+", "4", "2">>, <<"0", "x", "+", "1">>, <<"1", "+">>, <<"1", "1", "U+00E9">>,
      <<"0", "x">> \o Repeat("f", 16),
      <<"0", "x", "1">> \o Repeat("0", 16),
      <<"0", "b">> \o Repeat("1", 64),
      <<"0", "b", "1">> \o Repeat("0", 64),
      <<"0", "1">> \o Repeat("7", 21),
      <<"0", "2">> \o Repeat("0", 21),
      <<"1", "8", "4", "4", "6", "7", "4", "4", "0", "7", "3", "7", "0", "9",
        "5", "5", "1", "6", "1", "5">>,
      <<"1", "8", "4", "4", "6", "7", "4", "4", "0", "7", "3", "7", "0", "9",
        "5", "5", "1", "6", "1", "6">>,
      Repeat("f", 16), Repeat("1", 64) }

Numbers == StringsUpTo(MaxLen) \cup SampleNumbers

Opts ==
    [display_hex : BOOLEAN, from_hex : BOOLEAN,
     display_dec : BOOLEAN, from_dec : BOOLEAN,
     display_oct : BOOLEAN, from_oct : BOOLEAN,
     display_bin : BOOLEAN, from_bin : BOOLEAN,
     number : Numbers]

\* --------------------------------------------------------------- state

VARIABLES
    opt,             \* Opt::from_args()
    pc,              \* the statement of run / main that is next
    input_radix,     \* run: the result of get_input_radix (line 106)
    output_radices,  \* run: the vector of line 107
    prefix,          \* run: the prefix of line 108
    number,          \* run: the rest of line 108
    from_radix,      \* run: the input radix of line 109
    iter,            \* run: the output radices the for loop has not taken yet
    stdout,          \* the lines printed with println!
    stderr,          \* the lines written to the error stream
    result,          \* the value run returned
    exit_code,       \* the code the process exited with
    c_pc,            \* codec calls: the call that is next
    c_n,             \* format: the argument n
    c_radix,         \* format: the argument radix
    c_fmt,           \* format: the value returned
    c_s,             \* convert: the argument s
    c_from,          \* convert: the argument from_radix
    c_to,            \* convert: the argument to_radix
    c_out            \* convert: the value returned

run_vars == <<opt, pc, input_radix, output_radices, prefix, number, from_radix,
              iter, stdout, stderr, result, exit_code>>

codec_vars == <<c_pc, c_n, c_radix, c_fmt, c_s, c_from, c_to, c_out>>

vars == <<run_vars, codec_vars>>

\* No codec call is made on its own.
CodecIdle ==
    /\ c_pc = "idle"
    /\ c_n = U64Zero
    /\ c_radix = 0
    /\ c_fmt = None
    /\ c_s = <<>>
    /\ c_from = 0
    /\ c_to = 0
    /\ c_out = None

Init ==
    /\ opt \in Opts
    /\ pc = "get_input_radix"
    /\ input_radix = None
    /\ output_radices = <<>>
    /\ prefix = <<>>
    /\ number = <<>>
    /\ from_radix = 0
    /\ iter = <<>>
    /\ stdout = <<>>
    /\ stderr = <<>>
    /\ result = None
    /\ exit_code = None
    /\ CodecIdle

\* A panic unwinds out of main: the message goes to the error stream and the
\* process exits with code 101.
PanicAt(where) ==
    /\ stderr' = Append(stderr, PanicLine(where))
    /\ exit_code' = Some(101)
    /\ pc' = "exited"

\* run, line 106: opt.get_input_radix().map_err(|e| println!("{}", e))?
GetInputRadix ==
    /\ pc = "get_input_radix"
    /\ LET r == get_input_radix(opt)
       IN IF r.tag = "Err"
          THEN /\ stdout' = Append(stdout, ErrorLine(r.err))
               /\ result' = Err("()")
               /\ pc' = "main"
               /\ UNCHANGED input_radix
          ELSE /\ input_radix' = r.val
               /\ pc' = "get_output_radices"
               /\ UNCHANGED <<stdout, result>>
    /\ UNCHANGED codec_vars
    /\ UNCHANGED <<opt, output_radices, prefix, number, from_radix, iter,
                   stderr, exit_code>>

\* run, line 107
GetOutputRadices ==
    /\ pc = "get_output_radices"
    /\ output_radices' = get_output_radices(opt)
    /\ pc' = "strip_prefix"
    /\ UNCHANGED codec_vars
    /\ UNCHANGED <<opt, input_radix, prefix, number, from_radix, iter, stdout,
                   stderr, result, exit_code>>

\* run, line 108
StripPrefix ==
    /\ pc = "strip_prefix"
    /\ LET r == strip_prefix(opt.number)
       IN IF r = Panic
          THEN /\ PanicAt("strip_prefix")
               /\ UNCHANGED <<prefix, number>>
          ELSE /\ prefix' = r.val.prefix
               /\ number' = r.val.rest
               /\ pc' = "detect"
               /\ UNCHANGED <<stderr, exit_code>>
    /\ UNCHANGED codec_vars
    /\ UNCHANGED <<opt, input_radix, output_radices, from_radix, iter, stdout,
                   result>>

\* run, line 109, and the entry of the for loop of line 110
DetectRadix ==
    /\ pc = "detect"
    /\ LET r == unwrap_or_detect(input_radix, prefix)
       IN IF r = None
          THEN /\ PanicAt("unwrap")
               /\ UNCHANGED <<from_radix, iter>>
          ELSE /\ from_radix' = r.val
               /\ iter' = output_radices
               /\ pc' = "for"
               /\ UNCHANGED <<stderr, exit_code>>
    /\ UNCHANGED codec_vars
    /\ UNCHANGED <<opt, input_radix, output_radices, prefix, number, stdout,
                   result>>

\* run, lines 110-114: one iteration of the for loop
ConvertNext ==
    /\ pc = "for"
    /\ iter # <<>>
    /\ LET out_radix == Head(iter)
           converted == convert(number, from_radix, out_radix)
       IN IF converted.tag = "Err"
          THEN /\ stdout' = Append(stdout, ErrorLine(converted.err))
               /\ result' = Err("()")
               /\ pc' = "main"
               /\ UNCHANGED iter
          ELSE /\ stdout' = Append(stdout, ConversionLine(out_radix, converted.val))
               /\ iter' = Tail(iter)
               /\ UNCHANGED <<pc, result>>
    /\ UNCHANGED codec_vars
    /\ UNCHANGED <<opt, input_radix, output_radices, prefix, number, from_radix,
                   stderr, exit_code>>

\* run, line 115: the loop is over
ReturnOk ==
    /\ pc = "for"
    /\ iter = <<>>
    /\ result' = Ok("()")
    /\ pc' = "main"
    /\ UNCHANGED codec_vars
    /\ UNCHANGED <<opt, input_radix, output_radices, prefix, number, from_radix,
                   iter, stdout, stderr, exit_code>>

\* main, lines 119-122: std::process::exit(match run() { Ok => 0, Err => 1 })
Exit ==
    /\ pc = "main"
    /\ exit_code' = Some(IF result.tag = "Ok" THEN 0 ELSE 1)
    /\ pc' = "exited"
    /\ UNCHANGED codec_vars
    /\ UNCHANGED <<opt, input_radix, output_radices, prefix, number, from_radix,
                   iter, stdout, stderr, result>>

Next ==
    \/ GetInputRadix
    \/ GetOutputRadices
    \/ StripPrefix
    \/ DetectRadix
    \/ ConvertNext
    \/ ReturnOk
    \/ Exit

Spec == Init /\ [][Next]_vars

\* ------------------------------------------------- the codec on its own

\* The supported radices.
Radices == {2, 8, 10, 16}

SampleLimbs == (0..MaxSmallLimb) \cup {10, LimbBase \div 2, LimbBase - 1}

\* Values over the whole u64 range, 0 and 2^64-1 among them.
SampleValues == [1..LimbCount -> SampleLimbs]

\* No process runs.
RunIdle ==
    /\ opt = [display_hex |-> FALSE, from_hex |-> FALSE,
              display_dec |-> FALSE, from_dec |-> FALSE,
              display_oct |-> FALSE, from_oct |-> FALSE,
              display_bin |-> FALSE, from_bin |-> FALSE, number |-> <<>>]
    /\ pc = "idle"
    /\ input_radix = None
    /\ output_radices = <<>>
    /\ prefix = <<>>
    /\ number = <<>>
    /\ from_radix = 0
    /\ iter = <<>>
    /\ stdout = <<>>
    /\ stderr = <<>>
    /\ result = None
    /\ exit_code = None

\* Either format(n, radix) is called and, when it returns a string, the
\* string is converted back from that radix; or convert is called on a given
\* string.
InitCodec ==
    /\ RunIdle
    /\ c_fmt = None
    /\ c_out = None
    /\ c_to \in Radices \cup {7}
    /\ \/ /\ c_pc = "format"
          /\ c_n \in SampleValues
          /\ c_radix \in 0..MaxRadixInput
          /\ c_s = <<>>
          /\ c_from = 0
       \/ /\ c_pc = "convert"
          /\ c_n = U64Zero
          /\ c_radix = 0
          /\ c_s \in Numbers
          /\ c_from \in Radices

\* radix::format(c_n, c_radix)
Format ==
    /\ c_pc = "format"
    /\ c_fmt' = format(c_n, c_radix)
    /\ IF c_fmt'.tag = "Ok"
       THEN /\ c_s' = c_fmt'.val
            /\ c_from' = c_radix
            /\ c_pc' = "convert"
       ELSE /\ c_pc' = "done"
            /\ UNCHANGED <<c_s, c_from>>
    /\ UNCHANGED <<c_n, c_radix, c_to, c_out>>
    /\ UNCHANGED run_vars

\* radix::convert(c_s, c_from, c_to)
Convert ==
    /\ c_pc = "convert"
    /\ c_out' = convert(c_s, c_from, c_to)
    /\ c_pc' = "done"
    /\ UNCHANGED <<c_n, c_radix, c_fmt, c_s, c_from, c_to>>
    /\ UNCHANGED run_vars

NextCodec ==
    \/ Format
    \/ Convert

SpecCodec == InitCodec /\ [][NextCodec]_vars

\* ------------------------------------------------------------- claims

\* The statements of run that have been executed.
AfterGetInputRadix == pc \in {"get_output_radices", "strip_prefix", "detect", "for", "main", "exited"}
AfterGetOutputRadices ==
    \/ pc \in {"strip_prefix", "detect", "for"}
    \/ pc \in {"main", "exited"} /\ output_radices # <<>>
Panicked == \E i \in 1..Len(stderr) : stderr[i].kind = "panic"
FromFlags(o) == {r \in Radices :
                    \/ r = 2 /\ o.from_bin
                    \/ r = 8 /\ o.from_oct
                    \/ r = 10 /\ o.from_dec
                    \/ r = 16 /\ o.from_hex}

DisplayFlag(o, r) ==
    \/ r = 2 /\ o.display_bin
    \/ r = 8 /\ o.display_oct
    \/ r = 10 /\ o.display_dec
    \/ r = 16 /\ o.display_hex

ConversionLines == SelectSeq(stdout, LAMBDA l : l.kind = "conversion")

\* C1: whenever two or more of the from-flags -B, -O, -D, -X are set,
\* get_input_radix returns Err(MultipleInputRadixFlags) and the run exits with
\* code 1 without printing a conversion line; it returns Ok only when at most
\* one from-flag is set.
C1_MultipleFromFlagsRejected ==
    AfterGetInputRadix =>
        IF Cardinality(FromFlags(opt)) >= 2
        THEN /\ result = Err("()")
             /\ stdout = <<ErrorLine(MultipleInputRadixFlags)>>
             /\ pc = "exited" => exit_code = Some(1)
        ELSE /\ pc = "get_output_radices" => result = None
             /\ input_radix = IF FromFlags(opt) = {} THEN None
                              ELSE Some(CHOOSE r \in FromFlags(opt) : TRUE)

\* C3: get_output_radices returns [2, 8, 10, 16] when no output flag is set and
\* otherwise exactly the radices whose flag is set, each once, in the order
\* 2, 8, 10, 16: always a non-empty, strictly increasing sub-list of
\* [2, 8, 10, 16].
C3_OutputRadices ==
    AfterGetOutputRadices =>
        /\ output_radices =
              IF \A r \in Radices : ~DisplayFlag(opt, r) THEN <<2, 8, 10, 16>>
              ELSE SelectSeq(<<2, 8, 10, 16>>, LAMBDA r : DisplayFlag(opt, r))
        /\ output_radices # <<>>
        /\ \A i \in 1..Len(output_radices) : output_radices[i] \in Radices
        /\ \A i \in 1..(Len(output_radices) - 1) :
              output_radices[i] < output_radices[i + 1]

\* C3 witness: -x and -b are given, and the vector is [2, 16].
C3_Witness ==
    /\ pc = "strip_prefix"
    /\ opt.display_hex /\ opt.display_bin /\ ~opt.display_dec /\ ~opt.display_oct
    /\ output_radices = <<2, 16>>

\* -- strings and numerals, as the claims speak of them

IsAscii(s) == \A i \in 1..Len(s) : s[i] \notin MultiByteChars
StartsWith(s, p) == Len(s) >= Len(p) /\ SubSeq(s, 1, Len(p)) = p
Drop(s, k) == SubSeq(s, k + 1, Len(s))
Split(p, rest) == [prefix |-> p, rest |-> rest]

\* c is a digit of the radix, in either case.
IsDigit(c, r) == \E k \in 1..r : LowerDigits[k] = c \/ UpperDigits[k] = c
DigitValue(c) == (CHOOSE k \in 1..36 : LowerDigits[k] = c \/ UpperDigits[k] = c) - 1

\* A canonical numeral: lowercase digits of the radix only, at least one, and
\* no leading zero unless the numeral is "0".
Canonical(s, r) ==
    /\ s # <<>>
    /\ \A i \in 1..Len(s) : \E k \in 1..r : LowerDigits[k] = s[i]
    /\ Len(s) > 1 => s[1] # "0"

\* Values are compared through their residues modulo pairwise coprime moduli
\* whose product exceeds every value a numeral of at most 66 bits denotes.
Moduli == {32707, 32713, 32717, 32719, 32749}

RECURSIVE PowMod(_, _, _)
PowMod(b, k, m) ==
    IF k = 0 THEN 1
    ELSE LET h == PowMod(b, k \div 2, m)
         IN (((h * h) % m) * (IF k % 2 = 1 THEN b % m ELSE 1)) % m

RECURSIVE SumRange(_, _, _)
SumRange(f, lo, hi) ==
    IF lo > hi THEN 0
    ELSE IF lo = hi THEN f[lo]
    ELSE LET mid == (lo + hi) \div 2
         IN SumRange(f, lo, mid) + SumRange(f, mid + 1, hi)

\* The value of the digits in radix r, modulo m.
NumeralMod(s, r, m) ==
    SumRange([i \in 1..Len(s) |-> (DigitValue(s[i]) * PowMod(r, Len(s) - i, m)) % m],
             1, Len(s)) % m

\* The value of the u64 n, modulo m.
U64Mod(n, m) ==
    SumRange([i \in 1..Len(n) |-> ((n[i] % m) * PowMod(LimbBase, Len(n) - i, m)) % m],
             1, Len(n)) % m

\* The numeral s in radix r denotes the u64 n.
Denotes(s, r, n) == \A m \in Moduli : NumeralMod(s, r, m) = U64Mod(n, m)

\* Two numerals denote the same value.
SameValue(s, r, s2, r2) == \A m \in Moduli : NumeralMod(s, r, m) = NumeralMod(s2, r2, m)

\* The numeral of 2^64 - 1 in each radix.
MaxNumeral(r) ==
    CASE r = 2 -> Repeat("1", 64)
      [] r = 8 -> <<"1">> \o Repeat("7", 21)
      [] r = 10 -> <<"1", "8", "4", "4", "6", "7", "4", "4", "0", "7", "3",
                     "7", "0", "9", "5", "5", "1", "6", "1", "5">>
      [] r = 16 -> Repeat("f", 16)

\* The digits without their leading zeros.
Significant(s) ==
    LET nz == {i \in 1..Len(s) : s[i] # "0"}
    IN IF nz = {} THEN <<>>
       ELSE Drop(s, (CHOOSE i \in nz : \A j \in nz : i <= j) - 1)

\* The digits denote a value above 2^64 - 1: more significant digits than the
\* largest numeral, or as many and a larger digit at the first difference.
AboveU64(s, r) ==
    LET sig == Significant(s)
        max == MaxNumeral(r)
    IN \/ Len(sig) > Len(max)
       \/ /\ Len(sig) = Len(max)
          /\ \E i \in 1..Len(sig) :
                /\ DigitValue(sig[i]) > DigitValue(max[i])
                /\ \A j \in 1..(i - 1) : DigitValue(sig[j]) = DigitValue(max[j])

StripPrefixActed ==
    \/ pc \in {"detect", "for"}
    \/ pc \in {"main", "exited"} /\ output_radices # <<>>

StripPrefixReturned ==
    /\ StripPrefixActed
    /\ \A i \in 1..Len(stderr) : stderr[i] # PanicLine("strip_prefix")

\* C2 as stated: for every ASCII string s, strip_prefix(s) does not panic and
\* returns ("0x", remainder) if s starts with "0x", otherwise ("0b",
\* remainder) if s starts with "0b", otherwise ("0", remainder) if s starts
\* with "0", otherwise ("", s): also for the bare prefixes "0x", "0b", "0".
C2_StripPrefixAsStated ==
    (StripPrefixActed /\ IsAscii(opt.number)) =>
        /\ ~Panicked
        /\ Split(prefix, number) =
              LET s == opt.number
              IN IF StartsWith(s, <<"0", "x">>) THEN Split(<<"0", "x">>, Drop(s, 2))
                 ELSE IF StartsWith(s, <<"0", "b">>) THEN Split(<<"0", "b">>, Drop(s, 2))
                 ELSE IF StartsWith(s, <<"0">>) THEN Split(<<"0">>, Drop(s, 1))
                 ELSE Split(<<>>, s)

\* C2 amended: for every ASCII string s, strip_prefix(s) does not panic and
\* returns ("0x", remainder) if s starts with "0x" and is longer than 2,
\* otherwise ("0b", remainder) if s starts with "0b" and is longer than 2,
\* otherwise ("0", remainder) if s starts with "0" and is longer than 1,
\* otherwise ("", s): a prefix is split off only when a char follows it, so
\* "0x" gives ("0", "x"), "0b" gives ("0", "b"), "0" gives ("", "0") and ""
\* gives ("", "").
C2_StripPrefixAscii ==
    (StripPrefixActed /\ IsAscii(opt.number)) =>
        /\ ~Panicked
        /\ Split(prefix, number) =
              LET s == opt.number
              IN IF StartsWith(s, <<"0", "x">>) /\ Len(s) > 2
                 THEN Split(<<"0", "x">>, Drop(s, 2))
                 ELSE IF StartsWith(s, <<"0", "b">>) /\ Len(s) > 2
                 THEN Split(<<"0", "b">>, Drop(s, 2))
                 ELSE IF StartsWith(s, <<"0">>) /\ Len(s) > 1
                 THEN Split(<<"0">>, Drop(s, 1))
                 ELSE Split(<<>>, s)

\* C2 witness: the bare prefix "0x" has been split into ("0", "x").
C2_Witness ==
    /\ pc = "detect"
    /\ opt.number = <<"0", "x">>
    /\ prefix = <<"0">>
    /\ number = <<"x">>

\* C10: the prefix strip_prefix returns is one of "", "0", "0b", "0x", so
\* detect of it is Some(r) with r in {2, 8, 10, 16}; the unwrap of the
\* detection result in run never panics, whatever number is given.
C10_PrefixAlwaysDetected ==
    /\ StripPrefixReturned =>
          /\ prefix \in {<<>>, <<"0">>, <<"0", "b">>, <<"0", "x">>}
          /\ detect(prefix) \in {Some(r) : r \in Radices}
    /\ \A i \in 1..Len(stderr) : stderr[i] # PanicLine("unwrap")

\* C10 witness: no from-flag is given, the number is 0x2a, and the radix 16
\* has been detected from the prefix "0x".
C10_Witness ==
    /\ pc = "for"
    /\ FromFlags(opt) = {}
    /\ opt.number = <<"0", "x", "2", "a">>
    /\ prefix = <<"0", "x">>
    /\ from_radix = 16

\* C7: a run that fails writes exactly one error line, to the error stream
\* and not to standard output, and exits with code 1; a run that succeeds
\* writes nothing to the error stream and exits with code 0.
C7_ErrorsOnStderr ==
    (pc = "exited" /\ result # None) =>
        IF result = Ok("()")
        THEN /\ stderr = <<>>
             /\ exit_code = Some(0)
        ELSE /\ exit_code = Some(1)
             /\ Len(stderr) = 1
             /\ stderr[1].kind = "error"
             /\ \A i \in 1..Len(stdout) : stdout[i].kind # "error"

\* The output radices the flags ask for.
EffectiveRadices(o) ==
    IF \A r \in Radices : ~DisplayFlag(o, r) THEN <<2, 8, 10, 16>>
    ELSE SelectSeq(<<2, 8, 10, 16>>, LAMBDA r : DisplayFlag(o, r))

\* C8: with at most one from-flag set, the numeral parsed is the rest
\* strip_prefix returns for the number, also when a from-flag is set; the
\* input radix is the radix of the from-flag if one is set and detect(prefix)
\* otherwise; and when the parse succeeds with value v the run prints exactly
\* one line per effective output radix r, in the order 2, 8, 10, 16, with
\* as_text(r) and format(v, r).  Number 0x2a without flags prints 101010, 52,
\* 42, 2a.
C8_RunConvertsStrippedNumber ==
    (Cardinality(FromFlags(opt)) <= 1 /\ StripPrefixReturned) =>
        LET sp == strip_prefix(opt.number).val
            r == IF FromFlags(opt) # {} THEN CHOOSE f \in FromFlags(opt) : TRUE
                 ELSE detect(sp.prefix).val
            v == from_str_radix(sp.rest, r)
            eff == EffectiveRadices(opt)
        IN /\ number = sp.rest
           /\ pc \in {"for", "main", "exited"} => from_radix = r
           /\ pc = "exited" =>
                 IF v.tag = "Ok"
                 THEN stdout = [i \in 1..Len(eff) |->
                                   ConversionLine(eff[i], format(v.val, eff[i]).val)]
                 ELSE stdout = <<ErrorLine(UnableToParse(sp.rest, r))>>
           /\ ( /\ pc = "exited"
                /\ opt.number = <<"0", "x", "2", "a">>
                /\ FromFlags(opt) = {}
                /\ \A d \in Radices : ~DisplayFlag(opt, d) ) =>
                 stdout = << [kind |-> "conversion", label |-> [text |-> "binary"],
                              text |-> <<"1", "0", "1", "0", "1", "0">>],
                             [kind |-> "conversion", label |-> [text |-> "octal"],
                              text |-> <<"5", "2">>],
                             [kind |-> "conversion", label |-> [text |-> "decimal"],
                              text |-> <<"4", "2">>],
                             [kind |-> "conversion", label |-> [text |-> "hex"],
                              text |-> <<"2", "a">>] >>

\* C8 witness: -D is given with the number 074; the prefix "0" is stripped
\* all the same, 74 is parsed as decimal and the four lines are printed.
C8_Witness ==
    /\ pc = "exited"
    /\ FromFlags(opt) = {10}
    /\ opt.number = <<"0", "7", "4">>
    /\ number = <<"7", "4">>
    /\ from_radix = 10
    /\ Len(stdout) = 4
    /\ stdout[4] = ConversionLine(16, <<"4", "a">>)

\* C9: every run ends in exactly one of two outcomes: exit code 0 after one
\* conversion line for each effective output radix, or exit code 1 after no
\* conversion line at all.
C9_AllOrNothing ==
    pc = "exited" =>
        \/ /\ exit_code = Some(0)
           /\ Len(ConversionLines) = Len(EffectiveRadices(opt))
           /\ \A i \in 1..Len(ConversionLines) :
                 ConversionLines[i].label = as_text(EffectiveRadices(opt)[i])
        \/ /\ exit_code = Some(1)
           /\ ConversionLines = <<>>

\* -- the codec on its own

\* C4: for every radix r in {2, 8, 10, 16} and every u64 v, parsing
\* format(v, r) under radix r yields v again: convert(format(v, r), r, r) is
\* Ok(format(v, r)) and convert(format(v, r), r, 10) is the decimal numeral
\* of v.
C4_RoundTrip ==
    (c_pc = "done" /\ c_fmt.tag = "Ok") =>
        /\ from_str_radix(c_s, c_from) = Ok(c_n)
        /\ c_to = c_from => c_out = c_fmt
        /\ c_to = 10 => /\ c_out.tag = "Ok"
                        /\ Canonical(c_out.val, 10)
                        /\ Denotes(c_out.val, 10, c_n)
        /\ c_out = format(c_n, c_to)

\* C4 witness: 2^64 - 1 formatted in hex and converted from hex to decimal.
C4_Witness ==
    /\ c_pc = "done"
    /\ c_n = U64Max
    /\ c_fmt = Ok(Repeat("f", 16))
    /\ c_from = 16
    /\ c_to = 10
    /\ c_out = Ok(MaxNumeral(10))

ParseOutcome(digits, s, r) ==
    IF \/ digits = <<>>
       \/ \E i \in 1..Len(digits) : ~IsDigit(digits[i], r)
       \/ AboveU64(digits, r)
    THEN Err(UnableToParse(s, r))
    ELSE None

\* C6 as stated: for from_radix and to_radix in {2, 8, 10, 16},
\* convert(s, from_radix, to_radix) is Err(UnableToParse(s, from_radix))
\* whenever s is empty, contains a char that is no digit of from_radix (a
\* sign such as '+' is no digit), or denotes a value above 2^64 - 1, and
\* Ok(format(value of s, to_radix)) in every other case.
C6_ConvertAsStated ==
    (c_pc = "done" /\ c_from \in Radices /\ c_to \in Radices /\ c_out # None) =>
        IF ParseOutcome(c_s, c_s, c_from) # None
        THEN c_out = ParseOutcome(c_s, c_s, c_from)
        ELSE /\ c_out.tag = "Ok"
             /\ Canonical(c_out.val, c_to)
             /\ SameValue(c_out.val, c_to, c_s, c_from)

\* The digits from_str_radix reads: s without one leading '+'.
Unsigned(s) == IF s # <<>> /\ s[1] = "+" THEN Tail(s) ELSE s

\* C6 amended: for from_radix and to_radix in {2, 8, 10, 16},
\* convert(s, from_radix, to_radix) is Err(UnableToParse(s, from_radix))
\* whenever s, after one optional leading '+' is dropped, is empty, contains
\* a char that is no digit of from_radix (a second '+', a '-'), or denotes a
\* value above 2^64 - 1; in every other case it is Ok(format(value of the
\* digits, to_radix)), so convert("+42", 10, 16) is Ok("2a"); it never
\* returns UnableToFormat for these output radices.
C6_ConvertPlusSign ==
    (c_pc = "done" /\ c_from \in Radices /\ c_to \in Radices /\ c_out # None) =>
        IF ParseOutcome(Unsigned(c_s), c_s, c_from) # None
        THEN c_out = ParseOutcome(Unsigned(c_s), c_s, c_from)
        ELSE /\ c_out.tag = "Ok"
             /\ Canonical(c_out.val, c_to)
             /\ SameValue(c_out.val, c_to, Unsigned(c_s), c_from)

\* C6 witness: convert("+42", 10, 16) has returned Ok("2a").
C6_Witness ==
    /\ c_pc = "done"
    /\ c_s = <<"+", "4", "2">>
    /\ c_from = 10
    /\ c_to = 16
    /\ c_out = Ok(<<"2", "a">>)

====
